---------------------------- MODULE Spec2Model ----------------------------
(***************************************************************************)
(* A model of the ColorGenerator class of hex-color-randomizer.            *)
(*                                                                         *)
(* A JavaScript string is a sequence of one-character strings, so that     *)
(* formatting (toString(16), padStart, toUpperCase, slice) and parsing     *)
(* (the regular expression of isValidHexColor, parseInt) are computed and  *)
(* not assumed.  A JavaScript number that is not an integer is an exact    *)
(* fraction <<n, d>> with d > 0 in lowest terms; Math.round is taken on    *)
(* the exact value, which an IEEE double may miss when the exact value is  *)
(* a half.                                                                 *)
(*                                                                         *)
(* The instance methods run one step per loop iteration (Spec); the static *)
(* methods run in one step each, but for the unbounded loop of             *)
(* generateColorsAvoidingArray (SpecStatic).  The other specifications     *)
(* take the same actions: generateColorsAvoidingBgColor alone and running  *)
(* to its end (SpecAvoidingBgColor), the static methods under fair draws   *)
(* (SpecStaticFair), the conversions (SpecConvert), two instances with the *)
(* static methods (SpecSessions), and an instance with a caller that       *)
(* writes to the array it was returned (SpecCaller).                       *)
(***************************************************************************)
EXTENDS Integers, Sequences, FiniteSets, TLC

VARIABLES
    previousColors, \* ColorGenerator.previousColors, one per instance
    pc,             \* position of the running call, "idle" between calls
    op,             \* the public or tested method that was called
    self,           \* the instance an instance method was called on
    bgColor,        \* argument bgColor / baseColor / biasColor of the call
    avoidColors,    \* argument avoidColors of generateColorsAvoidingArray
    num,            \* argument num of the called method
    remember,       \* argument remember
    need,           \* argument num of the running generateColorsAvoidingBgColor
    colors,         \* local colors of generateColorsWithMemoryAvoidingShades
    loopColors,     \* local colors of the generating loop that is running
    attempts,       \* local attempts of generateColorsAvoidingBgColor
    draws,          \* generateRandomHexColor calls made so far by the running call
    warned,         \* whether console.warn was called by the call
    randomBytes,    \* the bytes each generateRandomHexColor of a static call drew
    result,         \* value returned by the last call
    outcome,        \* "none", "running", "returned" or the message of the Error thrown
    pre,            \* previousColors of self when the call started
    args,           \* arguments of the conversion that was called
    resultIsMemory  \* whether the array returned is the array self.previousColors holds

vars == <<previousColors, pc, op, self, bgColor, avoidColors, num, remember,
          need, colors, loopColors, attempts, draws, warned, randomBytes, result,
          outcome, pre, args, resultIsMemory>>

-----------------------------------------------------------------------------
(* Bounds of the model *)

\* largest num passed to a method
MaxNum == 2

-----------------------------------------------------------------------------
(* Strings *)

LowerDigits == <<"0","1","2","3","4","5","6","7","8","9","a","b","c","d","e","f">>

UpperDigits == <<"0","1","2","3","4","5","6","7","8","9","A","B","C","D","E","F">>

\* the upper-case letter of each lower-case hex letter
UpperOf == [ch \in {LowerDigits[i] : i \in 11..16} |->
               UpperDigits[CHOOSE i \in 11..16 : LowerDigits[i] = ch]]

\* String.prototype.toUpperCase on one character
CharToUpperCase(ch) == IF ch \in DOMAIN UpperOf THEN UpperOf[ch] ELSE ch

\* String.prototype.toUpperCase
toUpperCase(s) == [i \in 1..Len(s) |-> CharToUpperCase(s[i])]

\* Number.prototype.toString(16) of a non-negative integer
RECURSIVE toString16(_)
toString16(n) ==
    IF n < 16 THEN <<LowerDigits[n + 1]>>
    ELSE Append(toString16(n \div 16), LowerDigits[(n % 16) + 1])

\* String.prototype.padStart(len, "0")
RECURSIVE padStart(_, _)
padStart(s, len) == IF Len(s) >= len THEN s ELSE padStart(<<"0">> \o s, len)

\* Array.prototype.join("") of an array of strings
RECURSIVE join(_)
join(parts) == IF parts = <<>> THEN <<>> ELSE Head(parts) \o join(Tail(parts))

\* the value of each character [0-9A-F] matches under the i flag
HexValue == [ch \in {LowerDigits[i] : i \in 1..16} \cup {UpperDigits[i] : i \in 1..16} |->
                (CHOOSE i \in 1..16 : LowerDigits[i] = ch \/ UpperDigits[i] = ch) - 1]

\* whether ch is matched by [0-9A-F] under the i flag
IsHexDigit(ch) == ch \in DOMAIN HexValue

\* value of a character matched by [0-9A-F] under the i flag
HexDigitValue(ch) == HexValue[ch]

\* parseInt(s, 16) on a string without sign, blank or 0x prefix: the value of
\* the longest prefix of hex digits; NaN (no digit), which >> and & read as 0,
\* is 0 here
RECURSIVE parseIntAcc(_, _)
parseIntAcc(s, acc) ==
    IF s = <<>> \/ ~IsHexDigit(Head(s)) THEN acc
    ELSE parseIntAcc(Tail(s), acc * 16 + HexDigitValue(Head(s)))

parseInt16(s) == parseIntAcc(s, 0)

-----------------------------------------------------------------------------
(* Bit operations on non-negative integers below 2^31 *)

RECURSIVE BitOr(_, _)
BitOr(a, b) ==
    IF a = 0 THEN b
    ELSE IF b = 0 THEN a
    ELSE 2 * BitOr(a \div 2, b \div 2) + (IF a % 2 = 1 \/ b % 2 = 1 THEN 1 ELSE 0)

RECURSIVE BitAnd(_, _)
BitAnd(a, b) ==
    IF a = 0 \/ b = 0 THEN 0
    ELSE 2 * BitAnd(a \div 2, b \div 2) + (IF a % 2 = 1 /\ b % 2 = 1 THEN 1 ELSE 0)

Pow2(k) == 2 ^ k

ShiftLeft(a, k) == a * Pow2(k)

ShiftRight(a, k) == a \div Pow2(k)

-----------------------------------------------------------------------------
(* Exact fractions <<n, d>>, d > 0, in lowest terms *)

RECURSIVE GCD(_, _)
GCD(a, b) == IF b = 0 THEN a ELSE GCD(b, a % b)

IntAbs(a) == IF a < 0 THEN -a ELSE a

RNorm(n, d) ==
    LET sn == IF d < 0 THEN -n ELSE n
        sd == IntAbs(d)
        k  == GCD(IntAbs(sn), sd)
    IN  <<sn \div k, sd \div k>>

R(n) == <<n, 1>>

RAdd(p, q) == RNorm(p[1] * q[2] + q[1] * p[2], p[2] * q[2])

RSub(p, q) == RNorm(p[1] * q[2] - q[1] * p[2], p[2] * q[2])

RMul(p, q) == RNorm(p[1] * q[1], p[2] * q[2])

RDiv(p, q) == RNorm(p[1] * q[2], p[2] * q[1])

RAbs(p) == <<IntAbs(p[1]), p[2]>>

RLess(p, q) == p[1] * q[2] < q[1] * p[2]

RLeq(p, q) == p[1] * q[2] <= q[1] * p[2]

\* the integer part of p, toward zero
RTrunc(p) == IF p[1] >= 0 THEN p[1] \div p[2] ELSE -((-p[1]) \div p[2])

\* the JavaScript remainder p % q: the sign of the dividend
RRem(p, q) == RSub(p, RMul(q, R(RTrunc(RDiv(p, q)))))

\* Math.round: the nearest integer, a half rounds up
MathRound(p) == (2 * p[1] + p[2]) \div (2 * p[2])

RMax3(p, q, t) ==
    LET pq == IF RLess(p, q) THEN q ELSE p
    IN  IF RLess(pq, t) THEN t ELSE pq

RMin3(p, q, t) ==
    LET pq == IF RLess(q, p) THEN q ELSE p
    IN  IF RLess(t, pq) THEN t ELSE pq

-----------------------------------------------------------------------------
(* The static helpers of ColorGenerator *)

\* generateRandomHexColor without its padStart(2, '0')
generateRandomHexColorUnpadded(array) ==
    <<"#">> \o toUpperCase(join([i \in 1..3 |-> toString16(array[i])]))

\* generateRandomHexColor, for the three bytes crypto.getRandomValues wrote
generateRandomHexColor(array) ==
    <<"#">> \o toUpperCase(join([i \in 1..3 |-> padStart(toString16(array[i]), 2)]))

\* isValidHexColor without the i flag of its regular expression
isValidHexColorCaseSensitive(hex) ==
    /\ Len(hex) = 7
    /\ hex[1] = "#"
    /\ \A i \in 2..7 : \E k \in 1..16 : UpperDigits[k] = hex[i]

\* isValidHexColor: /^#[0-9A-F]{6}$/i.test(hex)
isValidHexColor(hex) ==
    /\ Len(hex) = 7
    /\ hex[1] = "#"
    /\ \A i \in 2..7 : IsHexDigit(hex[i])

\* hexToRgb
hexToRgb(hex) ==
    LET bigint == parseInt16(Tail(hex))
        r == BitAnd(ShiftRight(bigint, 16), 255)
        g == BitAnd(ShiftRight(bigint, 8), 255)
        b == BitAnd(bigint, 255)
    IN  <<r, g, b>>

\* the radicand of colorDifference: Math.sqrt is increasing and exact on
\* squares, so colorDifference(c1, c2) > t iff the radicand > t * t
colorDifferenceSquared(color1, color2) ==
    LET c1 == hexToRgb(color1)
        c2 == hexToRgb(color2)
    IN  (c2[1] - c1[1]) * (c2[1] - c1[1])
      + (c2[2] - c1[2]) * (c2[2] - c1[2])
      + (c2[3] - c1[3]) * (c2[3] - c1[3])

\* const threshold = 100
threshold == 100

\* const MAX_ATTEMPTS = 1000
MAX_ATTEMPTS == 1000

\* colorDifferenceExceeds with >= in place of >
colorDifferenceAtLeast(newColor, bg) ==
    colorDifferenceSquared(newColor, bg) >= threshold * threshold

\* this.colorDifference(newColor, bgColor) > threshold
colorDifferenceExceeds(newColor, bg) ==
    colorDifferenceSquared(newColor, bg) > threshold * threshold

\* rgbToHex without the 1 << 24 and slice(1) that keep the leading zeros
rgbToHexUnpadded(r, g, b) ==
    LET n == BitOr(BitOr(ShiftLeft(r, 16), ShiftLeft(g, 8)), b)
    IN  <<"#">> \o toUpperCase(toString16(n))

\* rgbToHex
rgbToHex(r, g, b) ==
    LET n == BitOr(BitOr(BitOr(ShiftLeft(1, 24), ShiftLeft(r, 16)), ShiftLeft(g, 8)), b)
    IN  <<"#">> \o toUpperCase(Tail(toString16(n)))

\* hslToRgb, h, s and l fractions
hslToRgb(h, s, l) ==
    LET c == RMul(RSub(R(1), RAbs(RSub(RMul(R(2), l), R(1)))), s)
        x == RMul(c, RSub(R(1), RAbs(RSub(RRem(RDiv(h, R(60)), R(2)), R(1)))))
        m == RSub(l, RDiv(c, R(2)))
        in(lo, hi) == RLeq(R(lo), h) /\ RLess(h, R(hi))
        rgb == IF in(0, 60) THEN <<c, x, R(0)>>
               ELSE IF in(60, 120) THEN <<x, c, R(0)>>
               ELSE IF in(120, 180) THEN <<R(0), c, x>>
               ELSE IF in(180, 240) THEN <<R(0), x, c>>
               ELSE IF in(240, 300) THEN <<x, R(0), c>>
               ELSE <<c, R(0), x>>
    IN  << MathRound(RMul(RAdd(rgb[1], m), R(255))),
           MathRound(RMul(RAdd(rgb[2], m), R(255))),
           MathRound(RMul(RAdd(rgb[3], m), R(255))) >>

\* rgbToHsl: <<hue in degrees (an integer), s, l>>, s and l fractions
rgbToHsl(r0, g0, b0) ==
    LET r == RNorm(r0, 255)
        g == RNorm(g0, 255)
        b == RNorm(b0, 255)
        max == RMax3(r, g, b)
        min == RMin3(r, g, b)
        l == RDiv(RAdd(max, min), R(2))
        d == RSub(max, min)
        s == IF RLess(RNorm(1, 2), l)
             THEN RDiv(d, RSub(RSub(R(2), max), min))
             ELSE RDiv(d, RAdd(max, min))
        h6 == IF max = r THEN RAdd(RDiv(RSub(g, b), d), IF RLess(g, b) THEN R(6) ELSE R(0))
              ELSE IF max = g THEN RAdd(RDiv(RSub(b, r), d), R(2))
              ELSE RAdd(RDiv(RSub(r, g), d), R(4))
        h == RDiv(h6, R(6))
    IN  IF max # min
        THEN <<MathRound(RMul(h, R(360))), s, l>>
        ELSE <<MathRound(RMul(R(0), R(360))), R(0), l>>

-----------------------------------------------------------------------------
(* The static generators, as functions of their arguments and random bytes *)

Returned(value) == [outcome |-> "returned", value |-> value]

Threw(message) == [outcome |-> message, value |-> <<>>]

\* generateAnalogousPalette with its hues starting one step late
generateAnalogousPaletteLate(baseColor, n) ==
    IF ~isValidHexColor(baseColor) THEN Threw("Invalid base color hex code")
    ELSE LET hues == [j \in 1..n |-> RDiv(R(j * 360), R(n))]
             palette == [j \in 1..n |->
                            LET rgb == hslToRgb(hues[j], RNorm(1, 2), RNorm(1, 2))
                            IN  rgbToHex(rgb[1], rgb[2], rgb[3])]
         IN  Returned(palette)

\* generateAnalogousPalette
generateAnalogousPalette(baseColor, n) ==
    IF ~isValidHexColor(baseColor) THEN Threw("Invalid base color hex code")
    ELSE LET hues == [j \in 1..n |-> RDiv(R((j - 1) * 360), R(n))]
             palette == [j \in 1..n |->
                            LET rgb == hslToRgb(hues[j], RNorm(1, 2), RNorm(1, 2))
                            IN  rgbToHex(rgb[1], rgb[2], rgb[3])]
         IN  Returned(palette)

\* generateComplementaryPalette without the % 360 of its rotation
generateComplementaryPaletteNoModulo(baseColor) ==
    IF ~isValidHexColor(baseColor) THEN Threw("Invalid base color hex code")
    ELSE LET baseRgb == hexToRgb(baseColor)
             baseHsl == rgbToHsl(baseRgb[1], baseRgb[2], baseRgb[3])
             complementaryHsl == <<baseHsl[1] + 180, baseHsl[2], baseHsl[3]>>
             complementaryRgb == hslToRgb(R(complementaryHsl[1]), complementaryHsl[2],
                                          complementaryHsl[3])
         IN  Returned(<< rgbToHex(baseRgb[1], baseRgb[2], baseRgb[3]),
                         rgbToHex(complementaryRgb[1], complementaryRgb[2],
                                  complementaryRgb[3]) >>)

\* generateComplementaryPalette
generateComplementaryPalette(baseColor) ==
    IF ~isValidHexColor(baseColor) THEN Threw("Invalid base color hex code")
    ELSE LET baseRgb == hexToRgb(baseColor)
             baseHsl == rgbToHsl(baseRgb[1], baseRgb[2], baseRgb[3])
             complementaryHsl == <<(baseHsl[1] + 180) % 360, baseHsl[2], baseHsl[3]>>
             complementaryRgb == hslToRgb(R(complementaryHsl[1]), complementaryHsl[2],
                                          complementaryHsl[3])
         IN  Returned(<< rgbToHex(baseRgb[1], baseRgb[2], baseRgb[3]),
                         rgbToHex(complementaryRgb[1], complementaryRgb[2],
                                  complementaryRgb[3]) >>)

\* generateBiasedColor, for the three bytes of its random color
generateBiasedColor(biasColor, array) ==
    IF ~isValidHexColor(biasColor) THEN Threw("Invalid bias color hex code")
    ELSE LET biasRgb == hexToRgb(biasColor)
             randomRgb == hexToRgb(generateRandomHexColor(array))
             r == MathRound(RNorm(biasRgb[1] + randomRgb[1], 2))
             g == MathRound(RNorm(biasRgb[2] + randomRgb[2], 2))
             b == MathRound(RNorm(biasRgb[3] + randomRgb[3], 2))
         IN  Returned(rgbToHex(r, g, b))

-----------------------------------------------------------------------------
(* Inputs of the model *)

\* the ColorGenerator instances
Sessions == {"A", "B"}

\* the instances the instance methods are called on under Spec
CalledSessions == {"A"}

\* the bytes crypto.getRandomValues writes inside generateColorsAvoidingBgColor:
\* at distance exactly 100 and 101 of #000000, 1 and 0 of #650000
SessionDraws == { <<100, 0, 0>>, <<101, 0, 0>> }

\* the bgColor arguments: valid ones that accept one, none and both of
\* SessionDraws, and invalid ones
BgColors ==
    { <<"#","0","0","0","0","0","0">>,
      <<"#","6","5","0","0","0","0">>,
      <<"#","0","0","0","0","f","F">>,
      <<"#","Z","Z","Z","Z","Z","Z">>,
      <<"#","F","F","F">> }

-----------------------------------------------------------------------------
(* The instance methods, one step per loop iteration *)

Init ==
    /\ previousColors = [s \in Sessions |-> <<>>]
    /\ pc = "idle"
    /\ op = "none"
    /\ self = "A"
    /\ bgColor = <<>>
    /\ avoidColors = <<>>
    /\ num = 0
    /\ remember = FALSE
    /\ need = 0
    /\ colors = <<>>
    /\ loopColors = <<>>
    /\ attempts = 0
    /\ draws = 0
    /\ warned = FALSE
    /\ randomBytes = <<>>
    /\ result = <<>>
    /\ outcome = "none"
    /\ pre = <<>>
    /\ args = <<>>
    /\ resultIsMemory = FALSE

\* ColorsReturned with colors = newColors in place of colors.concat(newColors)
ColorsReturnedNotConcatenated(rem, copy, newColors) == newColors

\* the local colors of generateColorsWithMemoryAvoidingShades when it returns:
\* the copy of previousColors with the new colors after it, or the new colors
ColorsReturned(rem, copy, newColors) ==
    IF rem THEN copy \o newColors ELSE newColors

\* ColorsStored with the colors stored whatever remember is
ColorsStoredAlways(rem, cs) == cs

\* what generateColorsWithMemoryAvoidingShades assigns to this.previousColors
ColorsStored(rem, cs) == IF rem THEN cs ELSE <<>>

\* SetPreviousColors as if previousColors were a static field of the class
SetPreviousColorsStatic(s, cs) == [t \in Sessions |-> cs]

\* this.previousColors = cs, this the instance s
SetPreviousColors(s, cs) == [previousColors EXCEPT ![s] = cs]

\* LoopPc without the second loop
LoopPcNoTopUp(cs, n, a) ==
    IF Len(cs) < n /\ a < MAX_ATTEMPTS THEN "loop" ELSE "return"

\* LoopPc with attempts <= MAX_ATTEMPTS in place of attempts < MAX_ATTEMPTS
LoopPcLateCap(cs, n, a) ==
    IF Len(cs) < n /\ a <= MAX_ATTEMPTS THEN "loop"
    ELSE IF Len(cs) < n THEN "topup"
    ELSE "return"

\* where generateColorsAvoidingBgColor stands with cs accepted after a attempts:
\* in its first loop, in its second loop, or past both
LoopPc(cs, n, a) ==
    IF Len(cs) < n /\ a < MAX_ATTEMPTS THEN "loop"
    ELSE IF Len(cs) < n THEN "topup"
    ELSE "return"

\* EnterAvoidingBgColor with previousColors reset before the validation
EnterAvoidingBgColorResetFirst(bg, n) ==
    IF ~isValidHexColor(bg)
    THEN /\ pc' = "idle"
         /\ outcome' = "Invalid hex color code"
         /\ result' = <<>>
         /\ need' = n
         /\ previousColors' = [previousColors EXCEPT ![self'] = <<>>]
    ELSE /\ pc' = LoopPc(<<>>, n, 0)
         /\ outcome' = "running"
         /\ result' = <<>>
         /\ need' = n
         /\ UNCHANGED previousColors

\* generateColorsAvoidingBgColor(bg, n) up to its first loop test: the
\* validation throws, or the loops start
EnterAvoidingBgColor(bg, n) ==
    IF ~isValidHexColor(bg)
    THEN /\ pc' = "idle"
         /\ outcome' = "Invalid hex color code"
         /\ result' = <<>>
         /\ need' = n
         /\ UNCHANGED previousColors
    ELSE /\ pc' = LoopPc(<<>>, n, 0)
         /\ outcome' = "running"
         /\ result' = <<>>
         /\ need' = n
         /\ UNCHANGED previousColors

\* generateColorsWithMemoryAvoidingShades(bg, n, rem) on instance s, up to the
\* first loop test of the generateColorsAvoidingBgColor it calls, or to its
\* return when it calls none
generateColorsWithMemoryAvoidingShades(s, bg, n, rem) ==
    /\ pc = "idle"
    /\ op' = "generateColorsWithMemoryAvoidingShades"
    /\ self' = s
    /\ bgColor' = bg
    /\ num' = n
    /\ remember' = rem
    /\ pre' = previousColors[s]
    /\ loopColors' = <<>>
    /\ attempts' = 0
    /\ draws' = 0
    /\ warned' = FALSE
    /\ avoidColors' = <<>>
    /\ randomBytes' = <<>>
    /\ args' = <<>>
    /\ resultIsMemory' = (rem /\ n - Len(previousColors[s]) <= 0)
    /\ IF rem
       THEN LET copy == previousColors[s]
                remainingColorsNeeded == n - Len(copy)
            IN  /\ colors' = copy
                /\ IF remainingColorsNeeded > 0
                   THEN EnterAvoidingBgColor(bg, remainingColorsNeeded)
                   ELSE /\ previousColors' =
                               SetPreviousColors(s, ColorsStored(rem, ColorsReturned(rem, copy, <<>>)))
                        /\ result' = ColorsReturned(rem, copy, <<>>)
                        /\ outcome' = "returned"
                        /\ need' = 0
                        /\ pc' = "idle"
       ELSE /\ colors' = <<>>
            /\ EnterAvoidingBgColor(bg, n)

\* generateColorsAvoidingBgColor(bg, n) called on instance s (as the tests do)
generateColorsAvoidingBgColor(s, bg, n) ==
    /\ pc = "idle"
    /\ op' = "generateColorsAvoidingBgColor"
    /\ self' = s
    /\ bgColor' = bg
    /\ num' = n
    /\ remember' = FALSE
    /\ pre' = previousColors[s]
    /\ colors' = <<>>
    /\ loopColors' = <<>>
    /\ attempts' = 0
    /\ draws' = 0
    /\ warned' = FALSE
    /\ avoidColors' = <<>>
    /\ randomBytes' = <<>>
    /\ args' = <<>>
    /\ resultIsMemory' = FALSE
    /\ EnterAvoidingBgColor(bg, n)

\* one iteration of while (colors.length < num && attempts < MAX_ATTEMPTS)
AttemptStep(array) ==
    /\ pc = "loop"
    /\ LET newColor == generateRandomHexColor(array)
           cs == IF colorDifferenceExceeds(newColor, bgColor)
                 THEN Append(loopColors, newColor)
                 ELSE loopColors
       IN  /\ loopColors' = cs
           /\ attempts' = attempts + 1
           /\ draws' = draws + 1
           /\ pc' = LoopPc(cs, need, attempts + 1)
    /\ UNCHANGED <<previousColors, op, self, bgColor, avoidColors, num, remember,
                   need, colors, warned, randomBytes, result, outcome, pre, args,
                   resultIsMemory>>

\* one iteration of while (colors.length < num)
TopUpStep(array) ==
    /\ pc = "topup"
    /\ LET cs == Append(loopColors, generateRandomHexColor(array))
       IN  /\ loopColors' = cs
           /\ draws' = draws + 1
           /\ pc' = IF Len(cs) < need THEN "topup" ELSE "return"
    /\ UNCHANGED <<previousColors, op, self, bgColor, avoidColors, num, remember,
                   need, colors, attempts, warned, randomBytes, result, outcome, pre,
                   args, resultIsMemory>>

\* the end of generateColorsAvoidingBgColor (the warning, the return, its
\* locals gone) and what its caller does with the value returned
ReturnStep ==
    /\ pc = "return"
    /\ pc' = "idle"
    /\ warned' = (Len(loopColors) < need)
    /\ outcome' = "returned"
    /\ loopColors' = <<>>
    /\ attempts' = 0
    /\ draws' = 0
    /\ IF op = "generateColorsWithMemoryAvoidingShades"
       THEN LET cs == ColorsReturned(remember, colors, loopColors)
            IN  /\ colors' = cs
                /\ previousColors' = SetPreviousColors(self, ColorsStored(remember, cs))
                /\ result' = cs
       ELSE /\ result' = loopColors
            /\ UNCHANGED <<colors, previousColors>>
    /\ resultIsMemory' = (op = "generateColorsWithMemoryAvoidingShades" /\ remember)
    /\ UNCHANGED <<op, self, bgColor, avoidColors, num, remember, need, randomBytes,
                   pre, args>>

Next ==
    \/ \E s \in CalledSessions, bg \in BgColors, n \in 0..MaxNum, rem \in BOOLEAN :
          generateColorsWithMemoryAvoidingShades(s, bg, n, rem)
    \/ \E s \in CalledSessions, bg \in BgColors, n \in 0..MaxNum :
          generateColorsAvoidingBgColor(s, bg, n)
    \/ \E array \in SessionDraws : AttemptStep(array)
    \/ \E array \in SessionDraws : TopUpStep(array)
    \/ ReturnStep

Spec == Init /\ [][Next]_vars

\* generateColorsAvoidingBgColor alone
NextAvoidingBgColor ==
    \/ \E s \in CalledSessions, bg \in BgColors, n \in 0..MaxNum :
          generateColorsAvoidingBgColor(s, bg, n)
    \/ \E array \in SessionDraws : AttemptStep(array)
    \/ \E array \in SessionDraws : TopUpStep(array)
    \/ ReturnStep

\* a step of NextAvoidingBgColor is one of these if and only if it is an
\* AttemptStep, and likewise a TopUpStep, whatever was drawn
AttemptTaken == pc = "loop" /\ attempts' = attempts + 1

TopUpTaken == pc = "topup" /\ draws' = draws + 1

\* a call that runs goes on running (one thread, no await), whatever it draws
SpecAvoidingBgColor ==
    /\ Init
    /\ [][NextAvoidingBgColor]_vars
    /\ WF_attempts(AttemptTaken)
    /\ WF_draws(TopUpTaken)
    /\ WF_vars(ReturnStep)

-----------------------------------------------------------------------------
(* The static methods *)

\* largest num passed to generateAnalogousPalette
MaxPaletteNum == 5

\* values of one byte of crypto.getRandomValues: one and two hex digits,
\* digits and letters
ByteValues == {0, 9, 10, 15, 16, 171, 255}

\* the bytes crypto.getRandomValues writes inside the static generators of
\* several colors: #000AAB, #FF0000, #00FF00, #123456
StaticDraws == { <<0, 10, 171>>, <<255, 0, 0>>, <<0, 255, 0>>, <<18, 52, 86>> }

\* the avoidColors arguments: none, the two of the tests, one spelled in lower
\* case, and every color of StaticDraws
AvoidLists ==
    { <<>>,
      << <<"#","F","F","0","0","0","0">>, <<"#","0","0","F","F","0","0">> >>,
      << <<"#","f","f","0","0","0","0">>, <<"#","1","2","3","4","5","6">> >>,
      << <<"#","0","0","0","A","A","B">>, <<"#","F","F","0","0","0","0">>,
         <<"#","0","0","F","F","0","0">>, <<"#","1","2","3","4","5","6">> >> }

Red == <<"#","F","F","0","0","0","0">>

\* the baseColor and biasColor arguments that isValidHexColor accepts
ValidColorInputs ==
    { <<"#","F","F","0","0","0","0">>,
      <<"#","f","f","0","0","0","0">>,
      <<"#","0","0","F","F","0","0">>,
      <<"#","0","0","0","0","F","F">>,
      <<"#","F","F","0","0","0","1">>,
      <<"#","8","0","8","0","8","0">>,
      <<"#","0","0","0","0","0","0">>,
      <<"#","F","F","F","F","F","F">>,
      <<"#","1","2","a","B","c","D">>,
      <<"#","B","F","4","0","4","0">>,
      <<"#","4","0","8","0","B","F">> }

\* and those it rejects
InvalidColorInputs ==
    { <<"#","Z","Z","Z","Z","Z","Z">>,
      <<"#","F","F","F">>,
      <<"F","F","0","0","0","0">>,
      <<"F","F","0","0","0","0","0">>,
      <<"#","F","F","0","0","0","0","0">>,
      <<"#","F","F","0","0","0","G">>,
      <<>> }

ColorInputs == ValidColorInputs \cup InvalidColorInputs

\* what a static call that runs in one step leaves
StaticReturn(name, bg, avoid, n, bytes, ret) ==
    /\ pc' = "idle"
    /\ op' = name
    /\ bgColor' = bg
    /\ avoidColors' = avoid
    /\ num' = n
    /\ randomBytes' = bytes
    /\ result' = ret.value
    /\ outcome' = ret.outcome
    /\ remember' = FALSE
    /\ need' = 0
    /\ colors' = <<>>
    /\ loopColors' = <<>>
    /\ attempts' = 0
    /\ draws' = 0
    /\ warned' = FALSE
    /\ args' = <<>>
    /\ resultIsMemory' = FALSE
    /\ UNCHANGED <<previousColors, self, pre>>

\* ColorGenerator.generateRandomHexColor()
CallGenerateRandomHexColor(array) ==
    /\ pc = "idle"
    /\ StaticReturn("generateRandomHexColor", <<>>, <<>>, 0, <<array>>,
               Returned(generateRandomHexColor(array)))

\* generateRandomHexColorsArray, for the bytes of its n draws
generateRandomHexColorsArray(n, arrays) ==
    Returned([i \in 1..n |-> generateRandomHexColor(arrays[i])])

\* ColorGenerator.generateRandomHexColorsArray(n)
CallGenerateRandomHexColorsArray(n, arrays) ==
    /\ pc = "idle"
    /\ StaticReturn("generateRandomHexColorsArray", <<>>, <<>>, n, arrays,
               generateRandomHexColorsArray(n, arrays))

\* ColorGenerator.generateAnalogousPalette(baseColor, n)
CallGenerateAnalogousPalette(baseColor, n) ==
    /\ pc = "idle"
    /\ StaticReturn("generateAnalogousPalette", baseColor, <<>>, n, <<>>,
               generateAnalogousPalette(baseColor, n))

\* ColorGenerator.generateComplementaryPalette(baseColor)
CallGenerateComplementaryPalette(baseColor) ==
    /\ pc = "idle"
    /\ StaticReturn("generateComplementaryPalette", baseColor, <<>>, 0, <<>>,
               generateComplementaryPalette(baseColor))

\* ColorGenerator.generateBiasedColor(biasColor); the bytes are drawn only
\* after the validation
CallGenerateBiasedColor(biasColor, array) ==
    /\ pc = "idle"
    /\ StaticReturn("generateBiasedColor", biasColor, <<>>, 0,
               IF isValidHexColor(biasColor) THEN <<array>> ELSE <<>>,
               generateBiasedColor(biasColor, array))

\* includes stopping one element early
includesExceptLast(array, value) == \E i \in 1..(Len(array) - 1) : array[i] = value

\* includes looking at the first element only
includesFirstOnly(array, value) == Len(array) > 0 /\ array[1] = value

\* avoidColors.includes(newColor)
includes(array, value) == \E i \in 1..Len(array) : array[i] = value

\* ColorGenerator.generateColorsAvoidingArray(avoid, n) up to its first loop
\* test, or to its return when the loop body never runs
generateColorsAvoidingArray(avoid, n) ==
    /\ pc = "idle"
    /\ op' = "generateColorsAvoidingArray"
    /\ bgColor' = <<>>
    /\ avoidColors' = avoid
    /\ num' = n
    /\ randomBytes' = <<>>
    /\ remember' = FALSE
    /\ need' = 0
    /\ colors' = <<>>
    /\ loopColors' = <<>>
    /\ attempts' = 0
    /\ draws' = 0
    /\ warned' = FALSE
    /\ result' = <<>>
    /\ args' = <<>>
    /\ resultIsMemory' = FALSE
    /\ IF 0 < n
       THEN pc' = "avoid" /\ outcome' = "running"
       ELSE pc' = "idle" /\ outcome' = "returned"
    /\ UNCHANGED <<previousColors, self, pre>>

\* one iteration of while (colors.length < num) of generateColorsAvoidingArray,
\* and the return when it was the last
AvoidStep(array) ==
    /\ pc = "avoid"
    /\ LET newColor == generateRandomHexColor(array)
           cs == IF ~includes(avoidColors, newColor)
                 THEN Append(loopColors, newColor)
                 ELSE loopColors
       IN  IF Len(cs) < num
           THEN /\ loopColors' = cs
                /\ UNCHANGED <<pc, result, outcome>>
           ELSE /\ loopColors' = <<>>
                /\ pc' = "idle"
                /\ result' = cs
                /\ outcome' = "returned"
    /\ UNCHANGED <<previousColors, op, self, bgColor, avoidColors, num, remember,
                   need, colors, attempts, draws, warned, randomBytes, pre, args,
                   resultIsMemory>>

NextStatic ==
    \/ \E array \in ByteValues \X ByteValues \X ByteValues :
          CallGenerateRandomHexColor(array)
    \/ \E n \in 0..MaxNum : \E arrays \in [1..n -> StaticDraws] :
          CallGenerateRandomHexColorsArray(n, arrays)
    \/ \E baseColor \in ColorInputs, n \in 0..MaxPaletteNum :
          CallGenerateAnalogousPalette(baseColor, n)
    \/ \E baseColor \in ColorInputs : CallGenerateComplementaryPalette(baseColor)
    \/ \E biasColor \in ColorInputs, array \in StaticDraws :
          CallGenerateBiasedColor(biasColor, array)
    \/ \E avoid \in AvoidLists, n \in 0..MaxNum : generateColorsAvoidingArray(avoid, n)
    \/ \E array \in StaticDraws : AvoidStep(array)

SpecStatic == Init /\ [][NextStatic]_vars

\* the static methods when the draws are fair: while generateColorsAvoidingArray
\* runs, each value crypto.getRandomValues can write is written again and again
SpecStaticFair ==
    /\ Init
    /\ [][NextStatic]_vars
    /\ \A array \in StaticDraws : WF_vars(AvoidStep(array))

-----------------------------------------------------------------------------
(* The conversions, called on their own and one on the value of another *)

\* values of one channel
ChannelValues == {0, 1, 2, 128, 255}

\* the r, g, b arguments
RgbInputs == ChannelValues \X ChannelValues \X ChannelValues

\* what a conversion leaves: its name, its arguments and its value
ConvertReturn(name, a, value) ==
    /\ pc' = "idle"
    /\ op' = name
    /\ args' = a
    /\ result' = value
    /\ outcome' = "returned"
    /\ UNCHANGED <<previousColors, self, bgColor, avoidColors, num, remember, need,
                   colors, loopColors, attempts, draws, warned, randomBytes, pre,
                   resultIsMemory>>

\* ColorGenerator.rgbToHsl(r, g, b)
CallRgbToHsl(rgb) ==
    /\ pc = "idle"
    /\ ConvertReturn("rgbToHsl", rgb, rgbToHsl(rgb[1], rgb[2], rgb[3]))

\* ColorGenerator.hslToRgb(...ColorGenerator.rgbToHsl(r, g, b))
CallHslToRgbOfRgbToHsl(rgb) ==
    /\ pc = "idle"
    /\ LET hsl == rgbToHsl(rgb[1], rgb[2], rgb[3])
       IN  ConvertReturn("hslToRgb(rgbToHsl)", rgb, hslToRgb(R(hsl[1]), hsl[2], hsl[3]))

\* ColorGenerator.rgbToHex(...ColorGenerator.hexToRgb(hex))
CallRgbToHexOfHexToRgb(hex) ==
    /\ pc = "idle"
    /\ LET rgb == hexToRgb(hex)
       IN  ConvertReturn("rgbToHex(hexToRgb)", <<hex>>, rgbToHex(rgb[1], rgb[2], rgb[3]))

\* ColorGenerator.rgbToHex(r, g, b)
CallRgbToHex(rgb) ==
    /\ pc = "idle"
    /\ ConvertReturn("rgbToHex", rgb, rgbToHex(rgb[1], rgb[2], rgb[3]))

\* ColorGenerator.hexToRgb(ColorGenerator.rgbToHex(r, g, b))
CallHexToRgbOfRgbToHex(rgb) ==
    /\ pc = "idle"
    /\ ConvertReturn("hexToRgb(rgbToHex)", rgb, hexToRgb(rgbToHex(rgb[1], rgb[2], rgb[3])))

NextConvert ==
    \/ \E rgb \in RgbInputs : CallRgbToHsl(rgb)
    \/ \E rgb \in RgbInputs : CallHslToRgbOfRgbToHsl(rgb)
    \/ \E hex \in ValidColorInputs : CallRgbToHexOfHexToRgb(hex)
    \/ \E rgb \in RgbInputs : CallRgbToHex(rgb)
    \/ \E rgb \in RgbInputs : CallHexToRgbOfRgbToHex(rgb)

SpecConvert == Init /\ [][NextConvert]_vars

-----------------------------------------------------------------------------
(* Two instances and the static methods, called in any order *)

\* largest num passed to a method when two instances are called
MaxSessionNum == 1

\* the bgColor arguments: all of SessionDraws accepted, all rejected, invalid
SessionBgColors ==
    { <<"#","0","0","0","0","f","F">>,
      <<"#","6","5","0","0","0","0">>,
      <<"#","Z","Z","Z","Z","Z","Z">> }

\* the bytes crypto.getRandomValues writes inside the static generators
SessionStaticDraws == { <<255, 0, 0>> }

NextSessions ==
    \/ \E s \in Sessions, bg \in SessionBgColors, n \in 0..MaxSessionNum, rem \in BOOLEAN :
          generateColorsWithMemoryAvoidingShades(s, bg, n, rem)
    \/ \E array \in SessionDraws : AttemptStep(array)
    \/ \E array \in SessionDraws : TopUpStep(array)
    \/ ReturnStep
    \/ \E array \in SessionStaticDraws : CallGenerateRandomHexColor(array)
    \/ \E n \in 0..MaxSessionNum : \E arrays \in [1..n -> SessionStaticDraws] :
          CallGenerateRandomHexColorsArray(n, arrays)
    \/ \E n \in 0..MaxSessionNum : CallGenerateAnalogousPalette(Red, n)
    \/ CallGenerateComplementaryPalette(Red)
    \/ \E array \in SessionStaticDraws : CallGenerateBiasedColor(Red, array)
    \/ \E n \in 0..MaxSessionNum : generateColorsAvoidingArray(<<>>, n)
    \/ \E array \in SessionStaticDraws : AvoidStep(array)

SpecSessions == Init /\ [][NextSessions]_vars

-----------------------------------------------------------------------------
(* An instance and its caller, who keeps the array returned and writes to it *)

\* longest array the caller makes
MaxCallerLen == 2

\* the color the caller writes
CallerColor == <<"#","A","B","C","D","E","F">>

\* the caller holds the array the last generateColorsWithMemoryAvoidingShades
\* call returned
CallerHoldsResult ==
    /\ pc = "idle"
    /\ outcome = "returned"
    /\ op \in {"generateColorsWithMemoryAvoidingShades", "caller"}

\* the caller makes the array it holds into newResult: one array is written,
\* which self.previousColors is too when the method stored the array it returned
CallerWrites(newResult) ==
    /\ CallerHoldsResult
    /\ op' = "caller"
    /\ result' = newResult
    /\ previousColors' = IF resultIsMemory
                          THEN [previousColors EXCEPT ![self] = newResult]
                          ELSE previousColors
    /\ UNCHANGED <<pc, self, bgColor, avoidColors, num, remember, need, colors,
                   loopColors, attempts, draws, warned, randomBytes, outcome, pre,
                   args, resultIsMemory>>

\* returned.push(color)
CallerPush(color) ==
    /\ Len(result) < MaxCallerLen
    /\ CallerWrites(Append(result, color))

\* returned.pop()
CallerPop ==
    /\ Len(result) > 0
    /\ CallerWrites(SubSeq(result, 1, Len(result) - 1))

\* returned[i] = color, i an index of the array
CallerOverwrite(i, color) ==
    /\ i \in 1..Len(result)
    /\ CallerWrites([result EXCEPT ![i] = color])

NextCaller ==
    \/ \E s \in CalledSessions, bg \in SessionBgColors, n \in 0..MaxSessionNum,
          rem \in BOOLEAN :
          generateColorsWithMemoryAvoidingShades(s, bg, n, rem)
    \/ \E array \in SessionDraws : AttemptStep(array)
    \/ \E array \in SessionDraws : TopUpStep(array)
    \/ ReturnStep
    \/ CallerPush(CallerColor)
    \/ CallerPop
    \/ \E i \in 1..MaxCallerLen : CallerOverwrite(i, CallerColor)

SpecCaller == Init /\ [][NextCaller]_vars

-----------------------------------------------------------------------------
(* Vocabulary of the properties *)

HexChars == {"0","1","2","3","4","5","6","7","8","9",
             "a","b","c","d","e","f","A","B","C","D","E","F"}

UpperHexChars == {"0","1","2","3","4","5","6","7","8","9","A","B","C","D","E","F"}

\* s matches ^#[0-9A-F]{6}$ case-insensitively
MatchesHexPattern(s) ==
    Len(s) = 7 /\ s[1] = "#" /\ \A i \in 2..7 : s[i] \in HexChars

\* s matches ^#[0-9A-F]{6}$
IsCanonicalColor(s) ==
    Len(s) = 7 /\ s[1] = "#" /\ \A i \in 2..7 : s[i] \in UpperHexChars

\* the two upper-case hex digits of a byte
TwoDigits(byte) == <<UpperDigits[(byte \div 16) + 1], UpperDigits[(byte % 16) + 1]>>

\* #RRGGBB of three bytes
Encoded(bytes) == <<"#">> \o TwoDigits(bytes[1]) \o TwoDigits(bytes[2]) \o TwoDigits(bytes[3])

IntMax(a, b) == IF a < b THEN b ELSE a

WithMemory == "generateColorsWithMemoryAvoidingShades"

\* a call of op is over and returned a value
HasReturned(name) == op = name /\ pc = "idle" /\ outcome = "returned"

\* a call of op is over and threw
HasThrown(name) == op = name /\ pc = "idle" /\ outcome \notin {"none", "running", "returned"}

-----------------------------------------------------------------------------
(* Properties of the instance methods, under Spec *)

\* C1: after a generateColorsWithMemoryAvoidingShades call with remember = true
\* and a valid bgColor, on a memory of length k and for num = n, the memory
\* has length max(k, n), its first k entries are the memory before the call in
\* the same order, and the value returned is the new memory.
C1_RememberAppends ==
    (HasReturned(WithMemory) /\ remember /\ MatchesHexPattern(bgColor)) =>
        /\ Len(previousColors[self]) = IntMax(Len(pre), num)
        /\ SubSeq(previousColors[self], 1, Len(pre)) = pre
        /\ result = previousColors[self]

\* a remember = true call has grown a memory that was not empty
C1_Witness ==
    /\ HasReturned(WithMemory) /\ remember /\ MatchesHexPattern(bgColor)
    /\ Len(pre) = 1
    /\ num = 2
    /\ Len(previousColors[self]) = 2

\* C2: a generateColorsWithMemoryAvoidingShades call with remember = false and
\* a valid bgColor returns exactly num colors and leaves the memory empty,
\* whatever the memory held before; the colors returned are not stored, so a
\* remember = true call that follows starts from the empty memory.
C2_ForgetResets ==
    /\ [](HasReturned(WithMemory) /\ ~remember =>
            Len(result) = num /\ previousColors[self] = <<>>)
    /\ [][(HasReturned(WithMemory) /\ ~remember /\ op' = WithMemory /\ remember'
           /\ self' = self) => (pre' = <<>> /\ colors' = <<>>)]_vars

\* a remember = false call has emptied a memory that held colors
C2_Witness ==
    /\ HasReturned(WithMemory) /\ ~remember
    /\ Len(pre) = 2
    /\ num = 1
    /\ Len(result) = 1

C5_InvalidBgAlwaysThrows ==
    (op = WithMemory /\ pc = "idle" /\ ~MatchesHexPattern(bgColor)) =>
        outcome = "Invalid hex color code"

\* C6: when a generateColorsWithMemoryAvoidingShades call throws, the memory
\* is what it was before the call.
C6_ThrowLeavesMemory ==
    HasThrown(WithMemory) => previousColors[self] = pre

\* a call has thrown on a memory that held colors
C6_Witness ==
    /\ HasThrown(WithMemory)
    /\ ~remember
    /\ Len(pre) = 2

-----------------------------------------------------------------------------
(* Properties of the static methods, under SpecStatic *)

\* C4: when generateColorsAvoidingArray returns, the value has exactly num
\* elements, each matches ^#[0-9A-F]{6}$, and none is an element of
\* avoidColors.
C4_AvoidingArrayAvoids ==
    HasReturned("generateColorsAvoidingArray") =>
        /\ Len(result) = num
        /\ \A i \in 1..Len(result) :
              /\ IsCanonicalColor(result[i])
              /\ result[i] \notin {avoidColors[j] : j \in 1..Len(avoidColors)}

\* generateColorsAvoidingArray has returned two colors for the list of the tests
C4_Witness ==
    /\ HasReturned("generateColorsAvoidingArray")
    /\ avoidColors = << Red, <<"#","0","0","F","F","0","0">> >>
    /\ num = 2
    /\ Len(result) = 2

PaletteOps == {"generateAnalogousPalette", "generateComplementaryPalette",
               "generateBiasedColor"}

\* the message of the Error each of them throws
InvalidMessage(name) ==
    IF name = "generateBiasedColor" THEN "Invalid bias color hex code"
    ELSE "Invalid base color hex code"

\* C7: generateAnalogousPalette, generateComplementaryPalette and
\* generateBiasedColor throw their invalid color error, with no value, when
\* the color does not match ^#[0-9A-F]{6}$ case-insensitively, and return
\* when it does.
C7_PalettesValidate ==
    (op \in PaletteOps /\ pc = "idle") =>
        IF MatchesHexPattern(bgColor)
        THEN outcome = "returned"
        ELSE outcome = InvalidMessage(op) /\ result = <<>>

\* generateAnalogousPalette("#ZZZZZZ", 5) has thrown
C7_Witness ==
    /\ HasThrown("generateAnalogousPalette")
    /\ bgColor = <<"#","Z","Z","Z","Z","Z","Z">>
    /\ num = 5

\* the same digits, whatever the case of the letters
SameColor(c1, c2) ==
    /\ Len(c1) = Len(c2)
    /\ \A i \in 1..Len(c1) :
          \/ c1[i] = c2[i]
          \/ \E k \in 11..16 : {c1[i], c2[i]} = {LowerDigits[k], UpperDigits[k]}

\* the base color with its hue turned by 180 degrees modulo 360
Complement(baseColor) ==
    LET rgb == hexToRgb(baseColor)
        hsl == rgbToHsl(rgb[1], rgb[2], rgb[3])
        turned == hslToRgb(R((hsl[1] + 180) % 360), hsl[2], hsl[3])
    IN  rgbToHex(turned[1], turned[2], turned[3])

\* C8: generateComplementaryPalette(base) returns exactly two colors, the
\* base color (in #RRGGBB upper case) and then the color of the base's hue
\* turned by 180 degrees modulo 360 with its saturation and lightness;
\* for #FF0000 they are #FF0000 and #00FFFF.
C8_ComplementaryPair ==
    HasReturned("generateComplementaryPalette") =>
        /\ Len(result) = 2
        /\ IsCanonicalColor(result[1])
        /\ SameColor(result[1], bgColor)
        /\ result[2] = Complement(bgColor)
        /\ (bgColor = Red => result = << Red, <<"#","0","0","F","F","F","F">> >>)

\* generateComplementaryPalette has returned for a base whose turned hue
\* passes 360
C8_Witness ==
    /\ HasReturned("generateComplementaryPalette")
    /\ bgColor = <<"#","0","0","0","0","F","F">>
    /\ result[2] = <<"#","F","F","F","F","0","0">>

AnalogousOfRed4 == HasReturned("generateAnalogousPalette") /\ bgColor = Red /\ num = 4

\* C9 as claimed: generateAnalogousPalette("#FF0000", 4) returns
\* #BF4040, #40BF40, #40BFBF, #4040BF.
C9_AnalogousAsClaimed ==
    AnalogousOfRed4 =>
        result = << <<"#","B","F","4","0","4","0">>, <<"#","4","0","B","F","4","0">>,
                    <<"#","4","0","B","F","B","F">>, <<"#","4","0","4","0","B","F">> >>

\* the hue rgbToHsl gives a color
HueOf(color) ==
    LET rgb == hexToRgb(color) IN rgbToHsl(rgb[1], rgb[2], rgb[3])[1]

\* C9, amended: generateAnalogousPalette("#FF0000", 4) returns 4 colors at
\* hues 0, 90, 180 and 270 degrees (saturation 0.5, lightness 0.5):
\* #BF4040, #80BF40, #40BFBF, #8040BF.
C9_AnalogousOfRed ==
    AnalogousOfRed4 =>
        /\ result = << <<"#","B","F","4","0","4","0">>, <<"#","8","0","B","F","4","0">>,
                       <<"#","4","0","B","F","B","F">>, <<"#","8","0","4","0","B","F">> >>
        /\ \A i \in 1..4 : HueOf(result[i]) = (i - 1) * 90

\* generateAnalogousPalette("#FF0000", 4) has returned four colors
C9_Witness == AnalogousOfRed4 /\ Len(result) = 4

\* C10: generateRandomHexColorsArray(num) returns exactly num elements, and
\* each of them, like the value of generateRandomHexColor, is # and the three
\* bytes drawn for it, in the order R, G, B, each as two zero-padded
\* upper-case hex digits, so matches ^#[0-9A-F]{6}$.
C10_RandomColorsEncoded ==
    /\ HasReturned("generateRandomHexColorsArray") =>
          /\ Len(result) = num
          /\ \A i \in 1..Len(result) :
                result[i] = Encoded(randomBytes[i]) /\ IsCanonicalColor(result[i])
    /\ HasReturned("generateRandomHexColor") =>
          result = Encoded(randomBytes[1]) /\ IsCanonicalColor(result)

\* generateRandomHexColorsArray has returned MaxNum colors, a byte below 16
\* among their bytes
C10_Witness ==
    /\ HasReturned("generateRandomHexColorsArray")
    /\ num >= 2
    /\ Len(result) = num
    /\ randomBytes[1][1] < 16

-----------------------------------------------------------------------------
(* Properties of two instances, under SpecSessions *)

\* C11: the memory of an instance changes only in a step of a
\* generateColorsWithMemoryAvoidingShades call on that instance: a call on one
\* instance leaves the memory of the other as it was, and the static methods
\* leave every memory as it was.
C11_SessionsIsolated ==
    [][\A s \in Sessions :
          previousColors'[s] # previousColors[s] =>
              (op' = WithMemory /\ self' = s /\ op = WithMemory /\ self = s)]_vars

\* a call on A has changed the memory of A while B held other colors
C11_Witness ==
    /\ HasReturned(WithMemory)
    /\ self = "A"
    /\ previousColors["A"] # pre
    /\ previousColors["B"] # <<>>
    /\ previousColors["A"] # <<>>
    /\ previousColors["A"] # previousColors["B"]

-----------------------------------------------------------------------------
(* Properties of generateColorsAvoidingBgColor, under SpecAvoidingBgColor *)

\* a call of generateColorsAvoidingBgColor is in its loops or at its return
InAvoidingBgColor == pc \in {"loop", "topup", "return"}

\* the draws the second loop has made
TopUpDraws == draws - attempts

\* C12: a generateColorsAvoidingBgColor call with a valid bgColor ends,
\* whatever it draws, after at most MAX_ATTEMPTS draws in its first loop and at
\* most num in its second, so at most MAX_ATTEMPTS + num draws.
C12_AvoidingBgColorTerminates ==
    /\ [](InAvoidingBgColor =>
            /\ attempts <= MAX_ATTEMPTS
            /\ TopUpDraws <= need
            /\ draws <= MAX_ATTEMPTS + need)
    /\ (InAvoidingBgColor ~> pc = "idle")

\* a call is about to return after MAX_ATTEMPTS + num draws
C12_Witness ==
    /\ pc = "return"
    /\ need = 2
    /\ attempts = MAX_ATTEMPTS
    /\ draws = MAX_ATTEMPTS + 2

\* C13 as claimed: generateColorsAvoidingBgColor calls console.warn before it
\* returns when its second loop had to add colors, and only then.
C13_WarnsWhenExhausted ==
    [][pc = "return" => (warned' <=> TopUpDraws > 0)]_vars

\* the k-th byte of a color, read from its digits
ByteOf(color, k) == 16 * HexValue[color[2 * k]] + HexValue[color[2 * k + 1]]

\* the Euclidean distance of two colors in RGB is above 100
Beyond100(c1, c2) ==
    LET sq(k) == (ByteOf(c1, k) - ByteOf(c2, k)) * (ByteOf(c1, k) - ByteOf(c2, k))
    IN  sq(1) + sq(2) + sq(3) > 100 * 100

\* C14: a color drawn in the first loop is pushed if and only if its distance
\* to bgColor is above 100 (at 100 it is not); the colors pushed by the first
\* loop come first, in the order drawn, so without a second loop every color
\* returned is beyond 100 of bgColor.
C14_AcceptsBeyondThreshold ==
    /\ [](InAvoidingBgColor =>
            \A i \in 1..(Len(loopColors) - TopUpDraws) : Beyond100(loopColors[i], bgColor))
    /\ [][pc = "loop" =>
            \E array \in SessionDraws :
               loopColors' = IF Beyond100(Encoded(array), bgColor)
                             THEN Append(loopColors, Encoded(array))
                             ELSE loopColors]_vars
    /\ [][pc = "topup" => SubSeq(loopColors', 1, Len(loopColors)) = loopColors]_vars
    /\ [][pc = "return" => result' = loopColors]_vars

\* a call is about to return two colors of its first loop, which rejected a
\* color at distance 100
C14_Witness ==
    /\ pc = "return"
    /\ bgColor = <<"#","0","0","0","0","0","0">>
    /\ need = 2
    /\ Len(loopColors) = 2
    /\ attempts = 3
    /\ TopUpDraws = 0

-----------------------------------------------------------------------------
(* Properties of generateColorsAvoidingArray under fair draws, SpecStaticFair *)

\* some color that can be drawn is not an element of avoidColors
SomeColorLeft ==
    \E array \in StaticDraws :
       \A j \in 1..Len(avoidColors) : avoidColors[j] # Encoded(array)

\* C15: generateColorsAvoidingArray has no cap on its draws: under fair draws
\* a call returns if num = 0 (at once) or if some color that can be drawn is
\* not in avoidColors, and otherwise it draws forever and never returns.
C15_AvoidingArrayTermination ==
    /\ [](op = "generateColorsAvoidingArray" /\ num = 0 => pc = "idle")
    /\ ((pc = "avoid" /\ SomeColorLeft) ~> HasReturned("generateColorsAvoidingArray"))
    /\ [][(pc = "avoid" /\ ~SomeColorLeft) => pc' = "avoid"]_vars

\* a call has returned two colors although avoidColors held a color that can
\* be drawn
C15_Witness ==
    /\ HasReturned("generateColorsAvoidingArray")
    /\ avoidColors = << <<"#","f","f","0","0","0","0">>, <<"#","1","2","3","4","5","6">> >>
    /\ num = 2
    /\ Len(result) = 2
    /\ ~includes(result, <<"#","1","2","3","4","5","6">>)

-----------------------------------------------------------------------------
(* Properties of the conversions, under SpecConvert *)

\* C16 as claimed: hslToRgb of rgbToHsl(r, g, b) differs from (r, g, b) by at
\* most 1 in each channel.
C16_HslRoundTripWithin1 ==
    op = "hslToRgb(rgbToHsl)" =>
        \A i \in 1..3 : result[i] - args[i] \in -1..1

\* C17 as claimed: rgbToHex of hexToRgb(c) is c exactly for every c that
\* matches ^#[0-9A-F]{6}$ case-insensitively, and hexToRgb of rgbToHex(r, g, b)
\* is (r, g, b), the value of rgbToHex matching ^#[0-9A-F]{6}$.
C17_HexRoundTripExact ==
    /\ op = "rgbToHex(hexToRgb)" => result = args[1]
    /\ op = "hexToRgb(rgbToHex)" => result = args
    /\ op = "rgbToHex" => IsCanonicalColor(result)

\* C17, amended: rgbToHex of hexToRgb(c) is c with its letters in upper case,
\* so c exactly when c has no lower-case letter; and hexToRgb of
\* rgbToHex(r, g, b) is (r, g, b), the value of rgbToHex being # and the three
\* channels as two zero-padded upper-case hex digits each.
C17_HexRoundTripUpperCase ==
    /\ op = "rgbToHex(hexToRgb)" =>
          /\ IsCanonicalColor(result)
          /\ SameColor(result, args[1])
          /\ (IsCanonicalColor(args[1]) => result = args[1])
    /\ op = "hexToRgb(rgbToHex)" => result = args
    /\ op = "rgbToHex" => result = Encoded(args)

\* rgbToHex(hexToRgb("#12aBcD")) has returned "#12ABCD"
C17_Witness ==
    /\ op = "rgbToHex(hexToRgb)"
    /\ args = << <<"#","1","2","a","B","c","D">> >>
    /\ result = <<"#","1","2","A","B","C","D">>

\* the fraction p is in [0, 1]
InUnitInterval(p) == RLeq(R(0), p) /\ RLeq(p, R(1))

\* C18 as claimed: the hue of rgbToHsl(r, g, b) is an integer in 0..359, hue
\* and saturation are 0 when r = g = b, saturation and lightness are in
\* [0, 1]; so the hue turned by 180 modulo 360 is in one of the six sextants.
C18_HueBelow360 ==
    op = "rgbToHsl" =>
        /\ result[1] \in 0..359
        /\ (args[1] = args[2] /\ args[2] = args[3] => result[1] = 0 /\ result[2] = R(0))
        /\ InUnitInterval(result[2])
        /\ InUnitInterval(result[3])
        /\ (result[1] + 180) % 360 \in 0..359

-----------------------------------------------------------------------------
(* Properties of an instance and its caller, under SpecCaller *)

\* s2 is s1 with elements after it
IsAppendOf(s2, s1) == Len(s1) <= Len(s2) /\ SubSeq(s2, 1, Len(s1)) = s1

\* C19 as claimed: when the caller changes the array that a remember = true
\* call returned, the memory stays as it was; the memory changes only when
\* generateColorsWithMemoryAvoidingShades appends to it or resets it.
C19_ReturnedArrayNotShared ==
    [][previousColors'[self] # previousColors[self] =>
          /\ op' = WithMemory
          /\ \/ remember' /\ IsAppendOf(previousColors'[self], previousColors[self])
             \/ ~remember' /\ previousColors'[self] = <<>>]_vars

=============================================================================
